---- MODULE Spec2Model ----
(***************************************************************************)
(* Reconnected Stock Exchange, rse-core: the Service (rse-core/src/lib.rs) *)
(* over the Postgres port (rse-core/src/repo/pg.rs), the error translation *)
(* (rse-core/src/error.rs) and the value types of rse-core/src/model.      *)
(*                                                                         *)
(* The specifications sharing the module:                                  *)
(*   Spec       concurrent callers of register_account / disc_to_id /      *)
(*              mc_to_id against the users table;                          *)
(*   SpecPort   the Service wrappers over an arbitrary StockRepository     *)
(*              (any repository result, any repository error);             *)
(*   SpecHold   get_holdings calls (two queries each) running against the  *)
(*              holdings table while the trading engine changes it;        *)
(*   SpecFrame  the five Service operations against a store that nothing   *)
(*              else writes to;                                            *)
(*   SpecPager  a Pager and its mutators;                                  *)
(*   SpecTicker Ticker::new applied to byte strings, equality and hashing; *)
(*   SpecReply  on_error of rse-discord answering two failed commands;     *)
(*   SpecNav    the portfolio command of rse-discord: the first reply and  *)
(*              the prev/next presses, while the trading engine may change *)
(*              the holdings;                                              *)
(*   SpecWalk   a caller reading all holdings page by page with            *)
(*              get_holdings and add_offset, nothing writing (fair).       *)
(***************************************************************************)
EXTENDS Integers, Sequences, FiniteSets, TLC

\* ---------------------------------------------------------------- bounds

\* Concurrent callers of the Service; each performs one call.
NumProcs == 2
\* Chat (Discord) ids are 1..MaxChat: NonZeroI64 values.
MaxChat == 2
\* Game (Minecraft) ids are 1..MaxGame.
MaxGame == 1

\* SpecPort: the values a repository may return are 1..MaxPayload.
MaxPayload == 4
\* SpecHold: pager offsets are -1..MaxOffset, pager limits are -1..MaxLimit.
MaxOffset == 3
MaxLimit == 2
\* SpecPager: the arguments and fields of a Pager are -MaxArg..MaxArg.
MaxArg == 10
\* SpecTicker: the byte strings given to Ticker::new are 0..MaxTickerLen long.
MaxTickerLen == 6
\* SpecNav: an account holds at most MaxHeld positions.
MaxHeld == 49

\* const PAGE_SIZE: i64 = 16 of the portfolio and stocks commands
PAGE_SIZE == 16
\* SpecWalk: a caller fetches at most MaxCalls pages.
MaxCalls == 5

Procs == 1..NumProcs
ChatIds == 1..MaxChat
GameIds == 1..MaxGame

\* ------------------------------------------------ Option, Result, errors

None == <<>>
Some(v) == <<v>>
IsSome(o) == o # None
Unwrap(o) == o[1]

Ok(v) == <<"Ok", v>>
Err(e) == <<"Err", e>>
\* A panic (failed debug_assert / expect) aborts the call: neither Ok nor Err.
Panic == <<"Panic">>
IsOk(r) == r[1] = "Ok"
IsErr(r) == r[1] = "Err"

\* repo::Error
AccountNotFound(id) == <<"AccountNotFound", id>>
AlreadyLinked == <<"AlreadyLinked">>
Unspecified == <<"Unspecified">>

\* error::Error
InvalidSnowflake(flake) == <<"InvalidSnowflake", flake>>
DatabaseError(source) == <<"DatabaseError", source>>
AccountExists == <<"AccountExists">>
UserNotFound == <<"UserNotFound">>

\* Faulty variant of impl From<repo::Error> for Error: AlreadyLinked is wrapped
\* like every other repository error.
FromRepoError_WrapsAll(value) == DatabaseError(value)

\* impl From<repo::Error> for Error
FromRepoError(value) ==
    IF value = AlreadyLinked THEN AccountExists ELSE DatabaseError(value)

\* Faulty variant of `repo_call.await?.context(UserNotFoundSnafu)`: an absent
\* value is passed on as a success.
Promote_LeaksNone(r) ==
    IF IsErr(r) THEN Err(FromRepoError(r[2])) ELSE Ok(r[2])

\* `repo_call.await?.context(UserNotFoundSnafu)`: `?` converts the repository
\* error, `context` turns None into UserNotFound and Some(v) into v.
Promote(r) ==
    IF IsErr(r) THEN Err(FromRepoError(r[2]))
    ELSE IF r[2] = None THEN Err(UserNotFound)
    ELSE Ok(Unwrap(r[2]))

\* `Ok(repo_call.await?)`: only the error is converted.
PassThrough(r) ==
    IF IsErr(r) THEN Err(FromRepoError(r[2])) ELSE r

\* ------------------------------------------------------------ the state

VARIABLES
    debug_assertions,   \* build profile: debug_assert_ne! compiled in or out
    users,              \* table users: rows [user_id, disc_id, mc_id]
    holdings,           \* table holdings: rows [user_id, ticker, shares]
    pc,                 \* per caller: "idle", "called", "done"
    call,               \* per caller: <<operation, arguments...>>
    ret,                \* per caller: the Service result, once done
    hist,               \* per caller: facts recorded at invocation / query
    port,               \* SpecPort: one Service call over an arbitrary repository
    hold,               \* SpecHold: one Service::get_holdings call
    pager,              \* SpecPager: one Pager and the operation last applied
    tick,               \* SpecTicker: byte strings and the Tickers made of them
    reply,              \* SpecReply: two failed commands and the replies sent
    nav,                \* SpecNav: one session of the portfolio command
    walk                \* SpecWalk: a caller reading an account's holdings page by page

\* The state of the value-type and adapter specifications
pure == <<pager, tick, reply, nav, walk>>

vars == <<debug_assertions, users, holdings, pc, call, ret, hist, port, hold,
          pager, tick, reply, nav, walk>>

\* ------------------------------------------------------ the users table

\* Faulty variant of the users table: no uniqueness constraint.
UniqueViolation_None(tbl, disc_id, mc_id) == FALSE

\* users.disc_id / users.mc_id carry a uniqueness constraint each; NULLs never
\* collide.
UniqueViolation(tbl, disc_id, mc_id) ==
    \E row \in tbl :
        \/ IsSome(disc_id) /\ row.disc_id = disc_id
        \/ IsSome(mc_id) /\ row.mc_id = mc_id

\* users.user_id is generated by the store: a value no row holds.
NewUserId(tbl) == Cardinality(tbl) + 1

\* The row an INSERT INTO users (disc_id, mc_id) creates: the store fills in
\* user_id and the balance.
NewUser(tbl, disc_id, mc_id) ==
    [user_id |-> NewUserId(tbl), disc_id |-> disc_id, mc_id |-> mc_id, balance |-> 0]

\* Faulty variant of discord_to_id: the query filters on the mc_id column.
discord_to_id_WrongColumn(tbl, id) ==
    LET rows == {row \in tbl : row.mc_id = Some(id)}
    IN IF rows = {} THEN None ELSE Some((CHOOSE row \in rows : TRUE).user_id)

\* SELECT user_id FROM users where disc_id = $1 (fetch_optional)
discord_to_id(tbl, id) ==
    LET rows == {row \in tbl : row.disc_id = Some(id)}
    IN IF rows = {} THEN None ELSE Some((CHOOSE row \in rows : TRUE).user_id)

\* SELECT user_id FROM users where mc_id = $1 (fetch_optional)
pg_mc_to_id(tbl, id) ==
    LET rows == {row \in tbl : row.mc_id = Some(id)}
    IN IF rows = {} THEN None ELSE Some((CHOOSE row \in rows : TRUE).user_id)

\* fetch_optional(..).map_err(|_| Error::Unspecified)
LookupResult(found, fault) == IF fault THEN Err(Unspecified) ELSE Ok(found)

\* Faulty variant of register_user's map_err closure: the unique violation is
\* not recognised.
RegisterError_Opaque(is_unique_violation) == Unspecified

\* register_user's map_err closure
RegisterError(is_unique_violation) ==
    IF is_unique_violation THEN AlreadyLinked ELSE Unspecified

\* Faulty variant of register_user: INSERT .. ON CONFLICT DO UPDATE, the
\* identity is moved to the new account.
register_user_Relinks(tbl, disc_id, mc_id, fault) ==
    IF fault THEN <<tbl, Err(Unspecified)>>
    ELSE LET kept == {row \in tbl :
                        ~ \/ IsSome(disc_id) /\ row.disc_id = disc_id
                          \/ IsSome(mc_id) /\ row.mc_id = mc_id}
             row == NewUser(tbl, disc_id, mc_id)
         IN <<kept \cup {row}, Ok(row.user_id)>>

\* Faulty variant of register_user: the row is written although the statement
\* fails.
register_user_Leaks(tbl, disc_id, mc_id, fault) ==
    LET row == NewUser(tbl, disc_id, mc_id)
    IN IF fault THEN <<tbl \cup {row}, Err(RegisterError(FALSE))>>
       ELSE IF UniqueViolation(tbl, disc_id, mc_id)
            THEN <<tbl, Err(RegisterError(TRUE))>>
            ELSE <<tbl \cup {row}, Ok(row.user_id)>>

\* PgPort::register_user: INSERT INTO users (disc_id, mc_id) VALUES ($1, $2)
\* RETURNING user_id, one atomic statement. <<table after, repository result>>
register_user(tbl, disc_id, mc_id, fault) ==
    IF fault THEN <<tbl, Err(RegisterError(FALSE))>>
    ELSE IF UniqueViolation(tbl, disc_id, mc_id)
         THEN <<tbl, Err(RegisterError(TRUE))>>
         ELSE LET row == NewUser(tbl, disc_id, mc_id)
              IN <<tbl \cup {row}, Ok(row.user_id)>>

\* --------------------------------------------------- Service, main Spec

NoHist == [fresh |-> FALSE, seen |-> None, fault |-> FALSE]

\* The account id a finished register_account call returned for an identity
\* (kind 2: chat id, kind 3: game id of the call), if any call did.
Returned(kind, id) ==
    LET got == {ret[q][2] : q \in {q \in Procs :
                    /\ pc[q] = "done"
                    /\ call[q][1] = "register_account"
                    /\ call[q][kind] = Some(id)
                    /\ IsOk(ret[q])}}
    IN IF got = {} THEN None ELSE Some(CHOOSE a \in got : TRUE)

\* The debug_assert_ne! of register_account
AssertFails(disc_id, mc_id) ==
    debug_assertions /\ (IsSome(disc_id) = IsSome(mc_id))

\* Service::register_account is invoked; the debug assertion runs first.
register_account_call(p, disc_id, mc_id) ==
    /\ pc[p] = "idle"
    /\ call' = [call EXCEPT ![p] = <<"register_account", disc_id, mc_id>>]
    /\ hist' = [hist EXCEPT ![p] =
                  [fresh |-> ~UniqueViolation(users, disc_id, mc_id),
                   seen |-> None, fault |-> FALSE]]
    /\ IF AssertFails(disc_id, mc_id)
       THEN pc' = [pc EXCEPT ![p] = "done"] /\ ret' = [ret EXCEPT ![p] = Panic]
       ELSE pc' = [pc EXCEPT ![p] = "called"] /\ UNCHANGED ret
    /\ UNCHANGED <<pure, debug_assertions, users, holdings, port, hold>>

\* Service::register_account: the INSERT runs and the result is returned.
register_account_ret(p) ==
    /\ pc[p] = "called"
    /\ call[p][1] = "register_account"
    /\ \E fault \in BOOLEAN :
         LET out == register_user(users, call[p][2], call[p][3], fault)
         IN /\ users' = out[1]
            /\ ret' = [ret EXCEPT ![p] = PassThrough(out[2])]
            /\ hist' = [hist EXCEPT ![p].fault = fault]
    /\ pc' = [pc EXCEPT ![p] = "done"]
    /\ UNCHANGED <<pure, debug_assertions, holdings, call, port, hold>>

\* Service::disc_to_id is invoked.
disc_to_id_call(p, id) ==
    /\ pc[p] = "idle"
    /\ call' = [call EXCEPT ![p] = <<"disc_to_id", Some(id), None>>]
    /\ hist' = [hist EXCEPT ![p] =
                  [fresh |-> FALSE, seen |-> Returned(2, id), fault |-> FALSE]]
    /\ pc' = [pc EXCEPT ![p] = "called"]
    /\ UNCHANGED <<pure, debug_assertions, users, holdings, ret, port, hold>>

\* Service::disc_to_id: the query runs and the result is returned.
disc_to_id_ret(p) ==
    /\ pc[p] = "called"
    /\ call[p][1] = "disc_to_id"
    /\ \E fault \in BOOLEAN :
         /\ ret' = [ret EXCEPT ![p] =
                Promote(LookupResult(discord_to_id(users, Unwrap(call[p][2])), fault))]
         /\ hist' = [hist EXCEPT ![p].fault = fault]
    /\ pc' = [pc EXCEPT ![p] = "done"]
    /\ UNCHANGED <<pure, debug_assertions, users, holdings, call, port, hold>>

\* Service::mc_to_id is invoked.
mc_to_id_call(p, id) ==
    /\ pc[p] = "idle"
    /\ call' = [call EXCEPT ![p] = <<"mc_to_id", None, Some(id)>>]
    /\ hist' = [hist EXCEPT ![p] =
                  [fresh |-> FALSE, seen |-> Returned(3, id), fault |-> FALSE]]
    /\ pc' = [pc EXCEPT ![p] = "called"]
    /\ UNCHANGED <<pure, debug_assertions, users, holdings, ret, port, hold>>

\* Service::mc_to_id: the query runs and the result is returned.
mc_to_id_ret(p) ==
    /\ pc[p] = "called"
    /\ call[p][1] = "mc_to_id"
    /\ \E fault \in BOOLEAN :
         /\ ret' = [ret EXCEPT ![p] =
                Promote(LookupResult(pg_mc_to_id(users, Unwrap(call[p][3])), fault))]
         /\ hist' = [hist EXCEPT ![p].fault = fault]
    /\ pc' = [pc EXCEPT ![p] = "done"]
    /\ UNCHANGED <<pure, debug_assertions, users, holdings, call, port, hold>>

\* PgPort::user_info: SELECT ... FROM users WHERE user_id = $1, fetch_optional,
\* and the row copied into a UserInfo (the chat id the store holds is positive,
\* so the conversions to NonZeroU64 succeed).
user_info(tbl, id) ==
    IF \E row \in tbl : row.user_id = id
    THEN LET u == CHOOSE row \in tbl : row.user_id = id
         IN Some([id |-> u.user_id, balance |-> u.balance,
                  mc_id |-> u.mc_id, disc_id |-> u.disc_id])
    ELSE None

\* Faulty variant of get_account_info_ret: a lookup that creates the account
\* it does not find.
get_account_info_ret_Creates(p) ==
    /\ pc[p] = "called"
    /\ call[p][1] = "get_account_info"
    /\ \E fault \in BOOLEAN :
         /\ ret' = [ret EXCEPT ![p] =
                Promote(LookupResult(user_info(users, Unwrap(call[p][2])), fault))]
         /\ hist' = [hist EXCEPT ![p].fault = fault]
         /\ users' = IF user_info(users, Unwrap(call[p][2])) = None /\ ~fault
                     THEN users \cup {NewUser(users, None, None)}
                     ELSE users
    /\ pc' = [pc EXCEPT ![p] = "done"]
    /\ UNCHANGED <<pure, debug_assertions, holdings, call, port, hold>>

\* Service::get_account_info is invoked.
get_account_info_call(p, id) ==
    /\ pc[p] = "idle"
    /\ call' = [call EXCEPT ![p] = <<"get_account_info", Some(id), None>>]
    /\ hist' = [hist EXCEPT ![p] = NoHist]
    /\ pc' = [pc EXCEPT ![p] = "called"]
    /\ UNCHANGED <<pure, debug_assertions, users, holdings, ret, port, hold>>

\* Service::get_account_info: the query runs and the result is returned.
get_account_info_ret(p) ==
    /\ pc[p] = "called"
    /\ call[p][1] = "get_account_info"
    /\ \E fault \in BOOLEAN :
         /\ ret' = [ret EXCEPT ![p] =
                Promote(LookupResult(user_info(users, Unwrap(call[p][2])), fault))]
         /\ hist' = [hist EXCEPT ![p].fault = fault]
    /\ pc' = [pc EXCEPT ![p] = "done"]
    /\ UNCHANGED <<pure, debug_assertions, users, holdings, call, port, hold>>

PortIdle == [pc |-> "idle", op |-> "", repo |-> <<>>, out |-> <<>>]
\* dirty, mid and seen record the history of the call: whether the account's
\* holdings changed since the call began, whether they changed between its two
\* queries, and which miscounts the calls so far have returned.
HoldIdle == [pc |-> "idle", id |-> 0, offset |-> 0, limit |-> 0, rows |-> <<>>,
             dirty |-> FALSE, mid |-> FALSE, seen |-> {},
             fault |-> FALSE, out |-> <<>>]

\* Nothing constructed or sent yet in the value-type and adapter specifications
PagerNone == [offset |-> 0, limit |-> 1, last |-> <<>>]
TickNone == [a |-> <<>>, b |-> <<>>, pc |-> "input", ra |-> <<>>, rb |-> <<>>]
ReplyNone == [pc |-> "idle", err1 |-> <<>>, err2 |-> <<>>,
              text1 |-> "", text2 |-> "", log1 |-> <<>>, log2 |-> <<>>]
\* No portfolio session yet. changed records whether a holding of the user was
\* inserted or removed since the first fetch of the session, fault whether the
\* last fetch met a storage fault.
NavIdle == [pc |-> "idle", user_id |-> 0, num_entries |-> 0, total_pages |-> 0,
            current_page |-> 0, offset |-> 0, form |-> "", shown |-> <<>>,
            button |-> "", changed |-> FALSE, fault |-> FALSE, out |-> <<>>]
WalkIdle == [pc |-> "idle", id |-> 0, offset |-> 0, limit |-> 1, pages |-> <<>>,
             left |-> <<>>]
PureIdle ==
    /\ pager = PagerNone /\ tick = TickNone /\ reply = ReplyNone
    /\ nav = NavIdle /\ walk = WalkIdle

Init ==
    /\ debug_assertions \in BOOLEAN
    /\ port = PortIdle
    /\ hold = HoldIdle
    /\ PureIdle
    /\ users = {}
    /\ holdings = {}
    /\ pc = [p \in Procs |-> "idle"]
    /\ call = [p \in Procs |-> <<>>]
    /\ ret = [p \in Procs |-> <<>>]
    /\ hist = [p \in Procs |-> NoHist]

Next ==
    \/ \E p \in Procs, d \in {None} \cup {Some(c) : c \in ChatIds},
          m \in {None} \cup {Some(g) : g \in GameIds} :
          register_account_call(p, d, m)
    \/ \E p \in Procs : register_account_ret(p)
    \/ \E p \in Procs, c \in ChatIds : disc_to_id_call(p, c)
    \/ \E p \in Procs : disc_to_id_ret(p)
    \/ \E p \in Procs, g \in GameIds : mc_to_id_call(p, g)
    \/ \E p \in Procs : mc_to_id_ret(p)

Spec == Init /\ [][Next]_vars


\* ------------------------------------- SpecPort: any StockRepository

\* The errors of repo::Error
RepoErrors ==
    {AlreadyLinked, Unspecified} \cup {AccountNotFound(i) : i \in 1..MaxPayload}

\* What a repository operation returning Result<Option<T>> may return
OptionResults ==
    {Ok(None)} \cup {Ok(Some(v)) : v \in 1..MaxPayload}
        \cup {Err(e) : e \in RepoErrors}

\* What register_user, returning Result<Uuid>, may return
PlainResults == {Ok(v) : v \in 1..MaxPayload} \cup {Err(e) : e \in RepoErrors}

PromotingOps == {"disc_to_id", "mc_to_id", "get_account_info", "get_holdings"}

\* The body of each Service method, given what its repository call returned
ServiceResult(op, r) ==
    IF op = "register_account" THEN PassThrough(r) ELSE Promote(r)

\* A Service method is invoked and its repository call returns r.
port_call(op, r) ==
    /\ port.pc # "called"
    /\ port' = [pc |-> "called", op |-> op, repo |-> r, out |-> <<>>]
    /\ UNCHANGED <<pure, debug_assertions, users, holdings, pc, call, ret, hist, hold>>

\* The Service method returns.
port_ret ==
    /\ port.pc = "called"
    /\ port' = [port EXCEPT !.pc = "done", !.out = ServiceResult(port.op, port.repo)]
    /\ UNCHANGED <<pure, debug_assertions, users, holdings, pc, call, ret, hist, hold>>

NextPort ==
    \/ \E op \in PromotingOps, r \in OptionResults : port_call(op, r)
    \/ \E r \in PlainResults : port_call("register_account", r)
    \/ port_ret

SpecPort == Init /\ [][NextPort]_vars

\* ------------------------------------------------------------- Ticker

\* ticker::ParseError
InvalidChars == <<"InvalidChars">>
InvalidLen == <<"InvalidLen">>

\* Faulty variant of is_ascii_alphabetic: digits pass as well.
is_ascii_alphabetic_OrDigit(b) ==
    (b >= 48 /\ b <= 57) \/ (b >= 65 /\ b <= 90) \/ (b >= 97 /\ b <= 122)

\* u8::is_ascii_alphabetic
is_ascii_alphabetic(b) == (b >= 65 /\ b <= 90) \/ (b >= 97 /\ b <= 122)

\* Faulty variant of to_ascii_uppercase: the byte is kept as it is.
to_ascii_uppercase_Keeps(b) == b

\* u8::to_ascii_uppercase, the step of make_ascii_uppercase
to_ascii_uppercase(b) == IF b >= 97 /\ b <= 122 THEN b - 32 ELSE b

\* Faulty variant of TickerNew: the letters are checked before the length.
TickerNew_CharsFirst(v) ==
    IF ~(\A i \in 1..Len(v) : is_ascii_alphabetic(v[i])) THEN Err(InvalidChars)
    ELSE IF ~(Len(v) >= 3 /\ Len(v) <= 5) THEN Err(InvalidLen)
    ELSE Ok(<<[i \in 1..5 |-> to_ascii_uppercase(IF i <= Len(v) THEN v[i] ELSE 0)],
              Len(v)>>)

\* Ticker::new: the length check, the letter check, then the bytes copied into
\* a zeroed [u8; 5] and uppercased; the Ticker is ([u8; 5], len).
TickerNew(v) ==
    IF ~(Len(v) >= 3 /\ Len(v) <= 5) THEN Err(InvalidLen)
    ELSE IF ~(\A i \in 1..Len(v) : is_ascii_alphabetic(v[i])) THEN Err(InvalidChars)
    ELSE Ok(<<[i \in 1..5 |-> to_ascii_uppercase(IF i <= Len(v) THEN v[i] ELSE 0)],
              Len(v)>>)

\* Ticker::as_str: the first len bytes
as_str(t) == SubSeq(t[1], 1, t[2])

\* Faulty variant of TickerEq: only the three bytes every Ticker has are compared.
TickerEq_Prefix(t, u) == SubSeq(as_str(t), 1, 3) = SubSeq(as_str(u), 1, 3)

\* impl PartialEq for Ticker
TickerEq(t, u) == as_str(t) = as_str(u)

\* impl Hash for Ticker: what str::hash writes to the hasher, the bytes of
\* as_str followed by 0xff
TickerHash(t) == Append(as_str(t), 255)

\* ------------------------------------------------- the holdings table

\* The symbols traded: "AAPL", "TSLA", "ZZZ" as bytes.
Tickers == {<<65, 65, 80, 76>>, <<84, 83, 76, 65>>, <<90, 90, 90>>}
\* The share counts the trading engine writes.
ShareCounts == {1, 5, 10}

\* Text order of the store (bytewise, shorter prefix first)
StrLess(a, b) ==
    \E k \in 1..Len(b) :
        /\ \A i \in 1..(k - 1) : i <= Len(a) /\ a[i] = b[i]
        /\ k <= Len(a) => a[k] < b[k]
        /\ k > Len(a) => k = Len(a) + 1

RECURSIVE OrderByTicker(_)
\* ORDER BY ticker
OrderByTicker(rows) ==
    IF rows = {} THEN <<>>
    ELSE LET first == CHOOSE r \in rows :
                        \A o \in rows \ {r} : StrLess(r.ticker, o.ticker)
         IN <<first>> \o OrderByTicker(rows \ {first})

\* Faulty variant of the page query: without ORDER BY the rows come in another
\* order (here the reverse one).
SelectPage_Unordered(tbl, id, limit, offset) ==
    LET all == OrderByTicker({r \in tbl : r.user_id = id})
        rev == [i \in 1..Len(all) |-> all[Len(all) + 1 - i]]
        last == IF offset + limit < Len(rev) THEN offset + limit ELSE Len(rev)
    IN SubSeq(rev, offset + 1, last)

\* SELECT ticker, shares FROM holdings WHERE user_id = $1 ORDER BY ticker
\* LIMIT $2 OFFSET $3, for limit >= 0 and offset >= 0
SelectPage(tbl, id, limit, offset) ==
    LET all == OrderByTicker({r \in tbl : r.user_id = id})
        last == IF offset + limit < Len(all) THEN offset + limit ELSE Len(all)
    IN SubSeq(all, offset + 1, last)

\* The store rejects a negative LIMIT or OFFSET.
PageQueryFails(limit, offset, fault) == fault \/ limit < 0 \/ offset < 0

\* Faulty variant of CountHoldings: the rows of every account are counted.
CountHoldings_AllAccounts(tbl, id) == Cardinality(tbl)

\* SELECT COUNT(*) FROM holdings WHERE user_id = $1
CountHoldings(tbl, id) == Cardinality({r \in tbl : r.user_id = id})

RECURSIVE FilterMapRows(_)
\* The filter_map of get_holdings: a row whose ticker does not parse is
\* dropped, the others become (Ticker, shares).
FilterMapRows(rows) ==
    IF rows = <<>> THEN <<>>
    ELSE LET t == TickerNew(Head(rows).ticker)
             rest == FilterMapRows(Tail(rows))
         IN IF IsOk(t) THEN <<<<t[2], Head(rows).shares>>>> \o rest ELSE rest

\* Faulty variant of `num -= i64::max(0, page.offset() + len)`: the offset is
\* left out.
Remaining_NoOffset(num, offset, len) == num - len

\* `num -= i64::max(0, page.offset() + len)`
Remaining(num, offset, len) ==
    num - (IF offset + len > 0 THEN offset + len ELSE 0)

\* The tail of PgPort::get_holdings: the remaining count, converted to usize
\* with expect("Will always be positive").
HoldingsResult(res, num, offset) ==
    LET left == Remaining(num, offset, Len(res))
    IN IF left < 0 THEN Panic ELSE Ok(Some(<<res, left>>))

\* ------------------------------------------ SpecHold: get_holdings

\* The account ids asked for: the existing ones and one that no row holds.
AccountIds == 1..(Cardinality(users) + 1)
UserExists(id) == \E row \in users : row.user_id = id

\* The entries of account id that follow the page rows in ticker order: those
\* after the last row of the page, or from the offset on if the page is empty
Beyond(tbl, id, rows, offset) ==
    LET mine == {r \in tbl : r.user_id = id}
        n == Cardinality(mine)
    IN IF rows = <<>> THEN (IF offset < n THEN n - offset ELSE 0)
       ELSE Cardinality({r \in mine : StrLess(as_str(rows[Len(rows)][1]), r.ticker)})

\* How a returned remaining count differs from the entries beyond the page
Miscount(left, after) ==
    IF left > after THEN {"larger"} ELSE IF left < after THEN {"smaller"} ELSE {}

\* Service::get_holdings is invoked with a Pager of any offset and limit.
get_holdings_call(id, offset, limit) ==
    /\ hold.pc \in {"idle", "done"}
    /\ hold' = [HoldIdle EXCEPT !.pc = "called", !.id = id, !.seen = hold.seen,
                                !.offset = offset, !.limit = limit]
    /\ UNCHANGED <<pure, debug_assertions, users, holdings, pc, call, ret, hist, port>>

\* PgPort::get_holdings, first query: the page rows, or the error returned
\* through `?`.
get_holdings_page ==
    /\ hold.pc = "called"
    /\ \E fault \in BOOLEAN :
         IF PageQueryFails(hold.limit, hold.offset, fault)
         THEN hold' = [hold EXCEPT !.pc = "done", !.fault = fault,
                                   !.out = Promote(Err(Unspecified))]
         ELSE hold' = [hold EXCEPT !.pc = "paged",
                         !.rows = FilterMapRows(
                            SelectPage(holdings, hold.id, hold.limit, hold.offset))]
    /\ UNCHANGED <<pure, debug_assertions, users, holdings, pc, call, ret, hist, port>>

\* PgPort::get_holdings, second query: the count, then the remaining count;
\* Service::get_holdings returns.
get_holdings_count ==
    /\ hold.pc = "paged"
    /\ \E fault \in BOOLEAN :
         LET r == IF fault THEN Err(Unspecified)
                  ELSE HoldingsResult(hold.rows, CountHoldings(holdings, hold.id),
                                      hold.offset)
             after == Beyond(holdings, hold.id, hold.rows, hold.offset)
         IN hold' = [hold EXCEPT !.pc = "done", !.fault = fault,
                        !.out = IF r = Panic THEN Panic ELSE Promote(r),
                        !.seen = IF IsOk(r) THEN hold.seen \cup Miscount(r[2][1][2], after)
                                 ELSE hold.seen]
    /\ UNCHANGED <<pure, debug_assertions, users, holdings, pc, call, ret, hist, port>>

\* Whether a change of account id's holdings falls into a get_holdings call,
\* and whether it falls between the call's two queries
Dirtied(id) ==
    IF hold.pc # "idle" /\ hold.id = id
    THEN [hold EXCEPT !.dirty = TRUE, !.mid = hold.mid \/ hold.pc = "paged"]
    ELSE hold

\* Whether a change of account id's holdings falls into a portfolio session
Touched(id) ==
    IF nav.pc # "idle" /\ nav.user_id = id THEN [nav EXCEPT !.changed = TRUE] ELSE nav

\* The trading engine gives an account a holding.
engine_insert(id, ticker, shares) ==
    /\ UserExists(id)
    /\ ~\E r \in holdings : r.user_id = id /\ r.ticker = ticker
    /\ holdings' = holdings \cup {[user_id |-> id, ticker |-> ticker, shares |-> shares]}
    /\ hold' = Dirtied(id)
    /\ nav' = Touched(id)
    /\ UNCHANGED <<pager, tick, reply, walk, debug_assertions, users, pc, call, ret,
                   hist, port>>

\* The trading engine removes a holding.
engine_remove(id, ticker) ==
    /\ \E r \in holdings : r.user_id = id /\ r.ticker = ticker
    /\ holdings' = {r \in holdings : ~(r.user_id = id /\ r.ticker = ticker)}
    /\ hold' = Dirtied(id)
    /\ nav' = Touched(id)
    /\ UNCHANGED <<pager, tick, reply, walk, debug_assertions, users, pc, call, ret,
                   hist, port>>

\* One account, registered for chat id 1, exists; it holds nothing yet.
\* get_holdings has no debug assertion, so a release build is taken.
InitHold ==
    /\ debug_assertions = FALSE
    /\ users = register_user({}, Some(1), None, FALSE)[1]
    /\ holdings = {}
    /\ pc = [p \in Procs |-> "idle"]
    /\ call = [p \in Procs |-> <<>>]
    /\ ret = [p \in Procs |-> <<>>]
    /\ hist = [p \in Procs |-> NoHist]
    /\ port = PortIdle
    /\ hold = HoldIdle
    /\ PureIdle

NextHold ==
    \/ \E id \in AccountIds, offset \in (-1)..MaxOffset, limit \in (-1)..MaxLimit :
          get_holdings_call(id, offset, limit)
    \/ get_holdings_page
    \/ get_holdings_count
    \/ \E id \in AccountIds, t \in Tickers, n \in ShareCounts : engine_insert(id, t, n)
    \/ \E id \in AccountIds, t \in Tickers : engine_remove(id, t)

SpecHold == InitHold /\ [][NextHold]_vars

\* ------------------------------------------ SpecFrame: the five operations

\* The holdings account 1 starts with: none, or two positions.
FrameHoldings ==
    {{}, {[user_id |-> 1, ticker |-> <<65, 65, 80, 76>>, shares |-> 5],
          [user_id |-> 1, ticker |-> <<90, 90, 90>>, shares |-> 1]}}

\* One account exists; each caller invokes one of the four operations on
\* accounts and get_holdings is invoked once; nothing else writes to the store.
InitFrame ==
    /\ debug_assertions \in BOOLEAN
    /\ users = register_user({}, Some(1), None, FALSE)[1]
    /\ holdings \in FrameHoldings
    /\ pc = [p \in Procs |-> "idle"]
    /\ call = [p \in Procs |-> <<>>]
    /\ ret = [p \in Procs |-> <<>>]
    /\ hist = [p \in Procs |-> NoHist]
    /\ port = PortIdle
    /\ hold = HoldIdle
    /\ PureIdle

\* Two callers are enough for one to read while the other registers.
FrameCallers == {p \in Procs : p <= 2}

NextFrame ==
    \/ \E p \in FrameCallers :
         \/ \E d \in {None} \cup {Some(i) : i \in ChatIds},
               m \in {None} \cup {Some(g) : g \in GameIds} :
                 register_account_call(p, d, m)
         \/ register_account_ret(p)
         \/ \E id \in ChatIds : disc_to_id_call(p, id)
         \/ disc_to_id_ret(p)
         \/ \E id \in GameIds : mc_to_id_call(p, id)
         \/ mc_to_id_ret(p)
         \/ \E id \in AccountIds : get_account_info_call(p, id)
         \/ get_account_info_ret(p)
    \/ \E id \in AccountIds, offset \in 0..MaxOffset, limit \in 1..MaxLimit :
         hold.pc = "idle" /\ get_holdings_call(id, offset, limit)
    \/ get_holdings_page
    \/ get_holdings_count

SpecFrame == InitFrame /\ [][NextFrame]_vars

\* --------------------------------------------------- SpecPager: Pager

\* The i64 arguments and field values tried
PagerValues == (-MaxArg)..MaxArg

Max(a, b) == IF a >= b THEN a ELSE b

\* Faulty variant of Pager_new: the requested limit is stored as it is.
Pager_new_NoClamp(offset, limit) == [offset |-> offset, limit |-> limit]

\* Pager::new
Pager_new(offset, limit) == [offset |-> offset, limit |-> Max(limit, 1)]

\* The pager after an operation: its two fields and the operation applied
PagerAfter(p, op, a, b) == [offset |-> p.offset, limit |-> p.limit, last |-> <<op, a, b>>]

\* let pager = Pager::new(offset, limit)
new(offset, limit) ==
    /\ pager.last = <<>>
    /\ pager' = PagerAfter(Pager_new(offset, limit), "new", offset, limit)
    /\ UNCHANGED <<debug_assertions, users, holdings, pc, call, ret, hist, port, hold,
                   tick, reply, nav, walk>>

\* pager.add_offset(v); sums outside the values tried are left out
add_offset(v) ==
    /\ pager.last # <<>>
    /\ pager.offset + v \in PagerValues
    /\ pager' = PagerAfter([pager EXCEPT !.offset = pager.offset + v],
                           "add_offset", v, pager.offset)
    /\ UNCHANGED <<debug_assertions, users, holdings, pc, call, ret, hist, port, hold,
                   tick, reply, nav, walk>>

\* pager.add_limit(v); sums outside the values tried are left out
add_limit(v) ==
    /\ pager.last # <<>>
    /\ pager.limit + v \in PagerValues
    /\ pager' = PagerAfter([pager EXCEPT !.limit = pager.limit + v],
                           "add_limit", v, pager.limit)
    /\ UNCHANGED <<debug_assertions, users, holdings, pc, call, ret, hist, port, hold,
                   tick, reply, nav, walk>>

\* pager.set_offset(v)
set_offset(v) ==
    /\ pager.last # <<>>
    /\ pager' = PagerAfter([pager EXCEPT !.offset = v], "set_offset", v, pager.offset)
    /\ UNCHANGED <<debug_assertions, users, holdings, pc, call, ret, hist, port, hold,
                   tick, reply, nav, walk>>

\* pager.set_limit(v)
set_limit(v) ==
    /\ pager.last # <<>>
    /\ pager' = PagerAfter([pager EXCEPT !.limit = v], "set_limit", v, pager.limit)
    /\ UNCHANGED <<debug_assertions, users, holdings, pc, call, ret, hist, port, hold,
                   tick, reply, nav, walk>>

NextPager ==
    \/ \E offset, limit \in PagerValues : new(offset, limit)
    \/ \E v \in PagerValues : add_offset(v)
    \/ \E v \in PagerValues : add_limit(v)
    \/ \E v \in PagerValues : set_offset(v)
    \/ \E v \in PagerValues : set_limit(v)

SpecPager == Init /\ [][NextPager]_vars

\* ------------------------------------------------ SpecTicker: Ticker::new

\* The bytes tried: '0', 'A', 'Z', 'a', 'z', '{'.
SampleBytes == {48, 65, 90, 97, 122, 123}
\* The letters of the pairs compared: 'A', 'B', 'a'.
PairBytes == {65, 66, 97}

\* The byte strings over a set of bytes with lo..hi elements
Strings(bytes, lo, hi) == UNION {[1..n -> bytes] : n \in lo..hi}

\* The inputs: one byte string of any kind, or two valid ones to compare.
TickerInputs ==
    {<<a, <<>>>> : a \in Strings(SampleBytes, 0, MaxTickerLen)}
      \cup (Strings(PairBytes, 3, 5) \X Strings(PairBytes, 3, 5))

InitTicker ==
    /\ debug_assertions = FALSE
    /\ users = {}
    /\ holdings = {}
    /\ pc = [p \in Procs |-> "idle"]
    /\ call = [p \in Procs |-> <<>>]
    /\ ret = [p \in Procs |-> <<>>]
    /\ hist = [p \in Procs |-> NoHist]
    /\ port = PortIdle
    /\ hold = HoldIdle
    /\ pager = PagerNone
    /\ reply = ReplyNone
    /\ nav = NavIdle
    /\ walk = WalkIdle
    /\ \E inp \in TickerInputs : tick = [TickNone EXCEPT !.a = inp[1], !.b = inp[2]]

\* Ticker::new is applied to the inputs.
ticker_new ==
    /\ tick.pc = "input"
    /\ tick' = [tick EXCEPT !.pc = "done", !.ra = TickerNew(tick.a),
                            !.rb = TickerNew(tick.b)]
    /\ UNCHANGED <<debug_assertions, users, holdings, pc, call, ret, hist, port, hold,
                   pager, reply, nav, walk>>

NextTicker == ticker_new

SpecTicker == InitTicker /\ [][NextTicker]_vars

\* ------------------------------------------------- SpecReply: on_error

\* rse_discord::error::Error
ServiceError(source) == <<"ServiceError", source>>
RegistrationError(source) == <<"RegistrationError", source>>
PoiseError == <<"PoiseError">>

\* The errors a Service method may return
ServiceErrors ==
    {FromRepoError(e) : e \in RepoErrors} \cup {UserNotFound}
        \cup {InvalidSnowflake(f) : f \in 1..MaxPayload}

\* The errors a command may fail with
CommandErrors ==
    {ServiceError(e) : e \in ServiceErrors}
        \cup {RegistrationError(e) : e \in ServiceErrors} \cup {PoiseError}

\* Faulty variant of on_error_text: the fallback reply quotes the error's source.
on_error_text_ShowsSource(error) ==
    IF error[1] = "RegistrationError"
    THEN <<"Could not register your account, please try again later! If the issue persists, contact support.">>
    ELSE IF error = ServiceError(UserNotFound)
    THEN <<"This user does not have an account">>
    ELSE <<"Experienced an unexpected internal error, please try again later! If the issue persists, contact support.",
           error>>

\* on_error, FrameworkError::Command: the description of the embed sent to
\* the user
on_error_text(error) ==
    IF error[1] = "RegistrationError"
    THEN <<"Could not register your account, please try again later! If the issue persists, contact support.">>
    ELSE IF error = ServiceError(UserNotFound)
    THEN <<"This user does not have an account">>
    ELSE <<"Experienced an unexpected internal error, please try again later! If the issue persists, contact support.">>

\* on_error, FrameworkError::Command: what tracing::error! writes to the log
on_error_log(error) ==
    IF error[1] = "RegistrationError"
    THEN <<"couldn't register account: ", error[2]>>
    ELSE <<>>

\* Two runs of a command fail, each with an error of its own.
command_fails(e1, e2) ==
    /\ reply.pc = "idle"
    /\ reply' = [reply EXCEPT !.pc = "failed", !.err1 = e1, !.err2 = e2]
    /\ UNCHANGED <<debug_assertions, users, holdings, pc, call, ret, hist, port, hold,
                   pager, tick, nav, walk>>

\* on_error handles the error of each run: the reply sent and the log line.
on_error ==
    /\ reply.pc = "failed"
    /\ reply' = [reply EXCEPT !.pc = "replied",
                   !.text1 = on_error_text(reply.err1),
                   !.text2 = on_error_text(reply.err2),
                   !.log1 = on_error_log(reply.err1),
                   !.log2 = on_error_log(reply.err2)]
    /\ UNCHANGED <<debug_assertions, users, holdings, pc, call, ret, hist, port, hold,
                   pager, tick, nav, walk>>

NextReply ==
    \/ \E e1, e2 \in CommandErrors : command_fails(e1, e2)
    \/ on_error

SpecReply == Init /\ [][NextReply]_vars

\* ------------------------------------------ SpecNav: the portfolio command

\* Service::get_holdings over PgPort::get_holdings, its two queries running
\* with no write between them: a page and the remaining count, an error, or
\* a panic.
GetHoldings(tbl, id, limit, offset, fault) ==
    IF PageQueryFails(limit, offset, fault) THEN Promote(Err(Unspecified))
    ELSE LET r == HoldingsResult(FilterMapRows(SelectPage(tbl, id, limit, offset)),
                                 CountHoldings(tbl, id), offset)
         IN IF r = Panic THEN Panic ELSE Promote(r)

\* i64::rem, the remainder with the sign of the dividend, for a divisor > 0
Rem(a, b) == IF a >= 0 THEN a % b ELSE 0 - ((0 - a) % b)

\* Ord::clamp
Clamp(v, lo, hi) == IF v < lo THEN lo ELSE IF v > hi THEN hi ELSE v

\* let total_pages = num_entries / PAGE_SIZE + num_entries.rem(PAGE_SIZE).clamp(0, 1)
TotalPages(num_entries) ==
    (num_entries \div PAGE_SIZE) + Clamp(Rem(num_entries, PAGE_SIZE), 0, 1)

\* match total_pages: the notice, one page, or a page with the two buttons
ReplyForm(total_pages) ==
    IF total_pages = 0 THEN "none" ELSE IF total_pages = 1 THEN "single" ELSE "buttons"

\* The least integer of the model, in the place of i64::MIN (-2^63): the only
\* value at which checked_sub(1) is None. No page number comes near either.
MinInt == 0 - 2147483647

\* i64::checked_sub
checked_sub(a, b) == IF a - b < MinInt THEN None ELSE Some(a - b)

\* current_page = current_page.checked_sub(1).unwrap_or(total_pages)
PrevPage(current_page, total_pages) ==
    LET r == checked_sub(current_page, 1)
    IN IF r = None THEN total_pages ELSE Unwrap(r)

\* current_page += 1; current_page %= total_pages + 1
NextPage(current_page, total_pages) == Rem(current_page + 1, total_pages + 1)

\* The symbols of the holdings of a portfolio, in ticker order: AAA, ABA, ...
NavTicker(i) == <<65 + ((i - 1) \div 26), 65 + ((i - 1) % 26), 65>>
NavHoldings(n) == {[user_id |-> 1, ticker |-> NavTicker(i), shares |-> 1] : i \in 1..n}

\* The portfolio command up to its first reply: disc_to_id, then get_holdings
\* of Pager::new(0, PAGE_SIZE) joined with get_account_info, then the reply
\* chosen by total_pages.
portfolio(chat) ==
    /\ nav.pc = "idle"
    /\ \E fault \in BOOLEAN :
         LET id == Promote(LookupResult(discord_to_id(users, chat), fault))
             page == Pager_new(0, PAGE_SIZE)
             got == GetHoldings(holdings, id[2], page.limit, page.offset, fault)
             info == Promote(LookupResult(user_info(users, id[2]), fault))
         IN IF IsErr(id)
            THEN nav' = [nav EXCEPT !.pc = "failed", !.fault = fault, !.out = id]
            ELSE IF ~IsOk(got)
            THEN nav' = [nav EXCEPT !.pc = IF got = Panic THEN "panicked" ELSE "failed",
                                    !.user_id = id[2], !.fault = fault, !.out = got]
            ELSE IF IsErr(info)
            THEN nav' = [nav EXCEPT !.pc = "failed", !.user_id = id[2],
                                    !.fault = fault, !.out = info]
            ELSE LET num_entries == got[2][2]
                     total_pages == TotalPages(num_entries)
                 IN nav' = [nav EXCEPT
                       !.pc = IF ReplyForm(total_pages) = "buttons" THEN "waiting"
                              ELSE "ended",
                       !.user_id = id[2],
                       !.num_entries = num_entries,
                       !.total_pages = total_pages,
                       !.form = ReplyForm(total_pages),
                       !.shown = got[2][1],
                       !.out = Ok(<<>>)]
    /\ UNCHANGED <<debug_assertions, users, holdings, pc, call, ret, hist, port, hold,
                   pager, tick, reply, walk>>

\* One turn of the loop: a button is pressed, current_page moves, the page of
\* the new offset is fetched, and either the notice ends the loop or the page
\* replaces the one shown. A press of something else is skipped.
press(button) ==
    /\ nav.pc = "waiting"
    /\ IF button = "other"
       THEN nav' = [nav EXCEPT !.button = button]
       ELSE \E fault \in BOOLEAN :
              LET current_page == IF button = "prev"
                                  THEN PrevPage(nav.current_page, nav.total_pages)
                                  ELSE NextPage(nav.current_page, nav.total_pages)
                  offset == current_page * PAGE_SIZE
                  got == GetHoldings(holdings, nav.user_id, PAGE_SIZE, offset, fault)
                  at == [nav EXCEPT !.button = button, !.current_page = current_page,
                                    !.offset = offset, !.fault = fault]
              IN IF got = Panic THEN nav' = [at EXCEPT !.pc = "panicked", !.out = got]
                 ELSE IF IsErr(got) THEN nav' = [at EXCEPT !.pc = "failed", !.out = got]
                 ELSE IF got[2][2] # nav.num_entries
                      THEN nav' = [at EXCEPT !.pc = "noticed"]
                      ELSE nav' = [at EXCEPT !.shown = got[2][1]]
    /\ UNCHANGED <<debug_assertions, users, holdings, pc, call, ret, hist, port, hold,
                   pager, tick, reply, walk>>

\* The collector times out and the loop ends.
timeout ==
    /\ nav.pc = "waiting"
    /\ nav' = [nav EXCEPT !.pc = "ended"]
    /\ UNCHANGED <<debug_assertions, users, holdings, pc, call, ret, hist, port, hold,
                   pager, tick, reply, walk>>

\* One account, of chat id 1, holding any number of positions up to MaxHeld.
InitNav ==
    /\ debug_assertions = FALSE
    /\ users = register_user({}, Some(1), None, FALSE)[1]
    /\ holdings \in {NavHoldings(n) : n \in 0..MaxHeld}
    /\ pc = [p \in Procs |-> "idle"]
    /\ call = [p \in Procs |-> <<>>]
    /\ ret = [p \in Procs |-> <<>>]
    /\ hist = [p \in Procs |-> NoHist]
    /\ port = PortIdle
    /\ hold = HoldIdle
    /\ PureIdle

\* While the buttons are shown the trading engine adds the next symbol to the
\* account or removes its last one.
NextNav ==
    \/ \E chat \in ChatIds : portfolio(chat)
    \/ \E button \in {"prev", "next", "other"} : press(button)
    \/ timeout
    \/ /\ nav.pc = "waiting"
       /\ CountHoldings(holdings, 1) < MaxHeld
       /\ engine_insert(1, NavTicker(CountHoldings(holdings, 1) + 1), 1)
    \/ /\ nav.pc = "waiting"
       /\ engine_remove(1, NavTicker(CountHoldings(holdings, 1)))

SpecNav == InitNav /\ [][NextNav]_vars

\* ------------------------------- SpecWalk: reading all pages of an account

\* The shares held of a symbol: 1 of "AAPL", 5 of "TSLA", 10 of "ZZZ"
WalkShares(t) == IF t[1] = 65 THEN 1 ELSE IF t[1] = 84 THEN 5 ELSE 10

\* The holdings tables read: any of the symbols, all held by account 1
WalkTables ==
    SUBSET {[user_id |-> 1, ticker |-> t, shares |-> WalkShares(t)] : t \in Tickers}

\* let mut page = Pager::new(0, l)
walk_start(id, l) ==
    /\ walk.pc = "idle"
    /\ walk' = [walk EXCEPT !.pc = "fetch", !.id = id,
                            !.offset = Pager_new(0, l).offset,
                            !.limit = Pager_new(0, l).limit]
    /\ UNCHANGED <<debug_assertions, users, holdings, pc, call, ret, hist, port, hold,
                   pager, tick, reply, nav>>

\* get_holdings(id, &page): the page is appended to what was read so far and
\* the remaining count decides whether the caller goes on.
walk_fetch ==
    /\ walk.pc = "fetch"
    /\ Len(walk.left) < MaxCalls
    /\ \E fault \in BOOLEAN :
       \E got \in {GetHoldings(holdings, walk.id, walk.limit, walk.offset, fault)} :
            walk' = IF got = Panic THEN [walk EXCEPT !.pc = "panicked"]
                    ELSE IF IsErr(got) THEN [walk EXCEPT !.pc = "failed"]
                    ELSE [walk EXCEPT
                            !.pc = IF got[2][2] = 0 THEN "done" ELSE "advance",
                            !.pages = walk.pages \o got[2][1],
                            !.left = Append(walk.left, got[2][2])]
    /\ UNCHANGED <<debug_assertions, users, holdings, pc, call, ret, hist, port, hold,
                   pager, tick, reply, nav>>

\* Faulty variant of walk_advance: the offset is left where it is.
walk_advance_Stays ==
    /\ walk.pc = "advance"
    /\ walk' = [walk EXCEPT !.pc = "fetch"]
    /\ UNCHANGED <<debug_assertions, users, holdings, pc, call, ret, hist, port, hold,
                   pager, tick, reply, nav>>

\* page.add_offset(l)
walk_advance ==
    /\ walk.pc = "advance"
    /\ walk' = [walk EXCEPT !.pc = "fetch", !.offset = walk.offset + walk.limit]
    /\ UNCHANGED <<debug_assertions, users, holdings, pc, call, ret, hist, port, hold,
                   pager, tick, reply, nav>>

\* One account, of chat id 1, with any of the holdings tables; nothing writes
\* to the store.
InitWalk ==
    /\ debug_assertions = FALSE
    /\ users = register_user({}, Some(1), None, FALSE)[1]
    /\ holdings \in WalkTables
    /\ pc = [p \in Procs |-> "idle"]
    /\ call = [p \in Procs |-> <<>>]
    /\ ret = [p \in Procs |-> <<>>]
    /\ hist = [p \in Procs |-> NoHist]
    /\ port = PortIdle
    /\ hold = HoldIdle
    /\ PureIdle

NextWalk ==
    \/ \E id \in AccountIds, l \in (-1)..MaxLimit : walk_start(id, l)
    \/ walk_fetch
    \/ walk_advance

\* The caller's loop keeps running: a step it can take is taken.
SpecWalk == InitWalk /\ [][NextWalk]_vars /\ WF_vars(NextWalk)

\* ------------------------------------------------ properties, main Spec

IsDone(p, op) == pc[p] = "done" /\ call[p][1] = op

\* The finished calls register_account(Some(c), None) that were invoked while
\* chat id c was unlinked and whose INSERT met no storage fault.
RaceGroup(c) ==
    {p \in Procs : /\ IsDone(p, "register_account")
                   /\ call[p][2] = Some(c) /\ call[p][3] = None
                   /\ hist[p].fresh /\ ~hist[p].fault}

\* Every registration naming chat id c has the form (Some(c), None).
OnlyChatRegistrations(c) ==
    \A q \in Procs :
        (pc[q] # "idle" /\ call[q][1] = "register_account" /\ call[q][2] = Some(c))
            => call[q][3] = None

\* C1: of the callers that invoke register_account(Some(c), None) while c is
\* unlinked, exactly one returns an account id, the id of the new row that
\* links c and an id no other call returned; every other one fails with
\* AccountExists.
C1_OneRegistrationWins ==
    \A c \in ChatIds :
        (OnlyChatRegistrations(c) /\ RaceGroup(c) # {}) =>
            LET winners == {p \in RaceGroup(c) : IsOk(ret[p])}
            IN /\ Cardinality(winners) = 1
               /\ \A p \in RaceGroup(c) \ winners : ret[p] = Err(AccountExists)
               /\ \A p \in winners :
                    /\ \E row \in users : /\ row.user_id = ret[p][2]
                                          /\ row.disc_id = Some(c)
                    /\ \A q \in Procs \ {p} :
                         (IsDone(q, "register_account") /\ IsOk(ret[q]))
                            => ret[q][2] # ret[p][2]

\* Two concurrent callers raced for the same unlinked chat id and both returned.
C1_Witness ==
    \E c \in ChatIds : OnlyChatRegistrations(c) /\ Cardinality(RaceGroup(c)) >= 2

\* C2: each external identity (chat id, game id) is linked to at most one
\* account.
C2_IdentityLinkedOnce ==
    \A r1 \in users, r2 \in users :
        (\/ IsSome(r1.disc_id) /\ r1.disc_id = r2.disc_id
         \/ IsSome(r1.mc_id) /\ r1.mc_id = r2.mc_id)
            => r1.user_id = r2.user_id

\* A second registration of a linked identity was refused.
C2_Witness ==
    \E p \in Procs :
        /\ IsDone(p, "register_account")
        /\ ret[p] = Err(AccountExists)
        /\ UniqueViolation(users, call[p][2], call[p][3])

\* C3: disc_to_id of a chat id that no account is linked to returns
\* UserNotFound and never a success; disc_to_id of a chat id for which
\* register_account had returned account id a returns a (the store answering
\* the query in both cases).
C3_LookupAfterRegister ==
    \A p \in Procs :
        IsDone(p, "disc_to_id") =>
            LET c == Unwrap(call[p][2])
                unlinked == \A row \in users : row.disc_id # Some(c)
            IN /\ unlinked => ~IsOk(ret[p])
               /\ (unlinked /\ ~hist[p].fault) => ret[p] = Err(UserNotFound)
               /\ (IsSome(hist[p].seen) /\ ~hist[p].fault)
                     => ret[p] = Ok(Unwrap(hist[p].seen))
               /\ IsOk(ret[p]) =>
                     \E row \in users : /\ row.disc_id = Some(c)
                                        /\ row.user_id = ret[p][2]

\* A chat id was looked up after its registration had returned.
C3_Witness ==
    \E p \in Procs :
        /\ IsDone(p, "disc_to_id")
        /\ IsSome(hist[p].seen)
        /\ IsOk(ret[p])

C9_FailedRegisterKeepsStore ==
    [][\A p \in Procs :
          (/\ pc[p] # "done"
           /\ pc'[p] = "done"
           /\ call'[p][1] = "register_account"
           /\ ~IsOk(ret'[p]))
              => users' = users]_vars

\* A registration failed on a storage fault while the table held an account.
C9_Witness ==
    \E p \in Procs :
        /\ IsDone(p, "register_account")
        /\ ret[p] = Err(DatabaseError(Unspecified))
        /\ users # {}

\* C10: a linked identity stays linked to the same account in every step, and
\* a disc_to_id / mc_to_id lookup made after register_account returned a for
\* the identity returns a (the store answering the query).
C10_LinkIsPermanent ==
    [][/\ \A c \in ChatIds :
            IsSome(discord_to_id(users, c))
                => discord_to_id(users', c) = discord_to_id(users, c)
       /\ \A g \in GameIds :
            IsSome(pg_mc_to_id(users, g))
                => pg_mc_to_id(users', g) = pg_mc_to_id(users, g)
       /\ \A p \in Procs :
            (/\ pc[p] = "called"
             /\ pc'[p] = "done"
             /\ call[p][1] \in {"disc_to_id", "mc_to_id"}
             /\ IsSome(hist[p].seen)
             /\ ~hist'[p].fault)
                => ret'[p] = Ok(Unwrap(hist[p].seen))]_vars

\* A game id was looked up after its registration had returned.
C10_Witness ==
    \E p \in Procs :
        /\ IsDone(p, "mc_to_id")
        /\ IsSome(hist[p].seen)
        /\ ret[p] = Ok(Unwrap(hist[p].seen))


\* ------------------------------------------------- properties, SpecPort

\* C6: every repository error is translated: AlreadyLinked to AccountExists,
\* any other one to DatabaseError carrying that error as its source; none
\* becomes UserNotFound or InvalidSnowflake.
C6_ErrorTranslation ==
    (port.pc = "done" /\ IsErr(port.repo)) =>
        LET e == port.repo[2]
            d == port.out[2]
        IN /\ IsErr(port.out)
           /\ e = AlreadyLinked => d = AccountExists
           /\ e # AlreadyLinked => d = DatabaseError(e)
           /\ d[1] \in {"AccountExists", "DatabaseError"}

\* A Service call returned on the repository error AccountNotFound.
C6_Witness ==
    /\ port.pc = "done"
    /\ \E i \in 1..MaxPayload :
         /\ port.repo = Err(AccountNotFound(i))
         /\ port.out = Err(DatabaseError(AccountNotFound(i)))

\* C7: disc_to_id, mc_to_id, get_account_info and get_holdings return
\* UserNotFound on Ok(None), v unchanged on Ok(Some(v)) and the translated error
\* on Err(e); an absent value is never returned as a success.
C7_AbsencePromoted ==
    (port.pc = "done" /\ port.op \in PromotingOps) =>
        /\ port.repo = Ok(None) => port.out = Err(UserNotFound)
        /\ \A v \in 1..MaxPayload : port.repo = Ok(Some(v)) => port.out = Ok(v)
        /\ \A e \in RepoErrors :
             port.repo = Err(e) =>
                port.out = Err(IF e = AlreadyLinked THEN AccountExists
                               ELSE DatabaseError(e))
        /\ IsOk(port.out) => port.out[2] \in 1..MaxPayload

\* get_holdings returned after its repository call returned Ok(None).
C7_Witness ==
    /\ port.pc = "done"
    /\ port.op = "get_holdings"
    /\ port.repo = Ok(None)


\* ------------------------------------------------- properties, SpecHold

\* C4: get_holdings for an account id that does not exist returns
\* UserNotFound, never a page and never an abort; stated here for the calls the
\* store answers (no storage fault, offset >= 0 and limit >= 1).
C4_UnknownAccountNotFound ==
    (/\ hold.pc = "done"
     /\ ~UserExists(hold.id)
     /\ ~hold.fault
     /\ hold.offset >= 0 /\ hold.limit >= 1)
        => hold.out = Err(UserNotFound)

\* The account's holdings rows, and a row's rank among them by ticker
HeldBy(id) == {r \in holdings : r.user_id = id}
Rank(r) == Cardinality({x \in HeldBy(r.user_id) : StrLess(x.ticker, r.ticker)})

Returns(p, op) == pc[p] = "called" /\ pc'[p] = "done" /\ call[p][1] = op

\* C11: the store (accounts with their identity links and balances, and the
\* holdings) changes only in a step in which register_account returns
\* successfully; such a step keeps every existing account, adds exactly one
\* and leaves the holdings alone. Every step of disc_to_id, mc_to_id,
\* get_account_info and get_holdings, successful or failed, and every failed
\* register_account leaves the store as it was.
C11_OnlyRegisterWrites ==
    [][ /\ (users' # users \/ holdings' # holdings) =>
            \E p \in Procs : Returns(p, "register_account") /\ IsOk(ret'[p])
        /\ \A p \in Procs :
              Returns(p, "register_account") /\ IsOk(ret'[p]) =>
                /\ users \subseteq users'
                /\ Cardinality(users') = Cardinality(users) + 1
                /\ holdings' = holdings ]_vars

\* An account was added by register_account, while get_account_info found no
\* account for an id and failed, and get_holdings returned.
C11_Witness ==
    /\ Cardinality(users) = 2
    /\ \E p \in Procs : IsDone(p, "get_account_info") /\ ret[p] = Err(UserNotFound)
    /\ hold.pc = "done"
    /\ holdings # {}

\* ------------------------------------------------ properties, SpecPager

\* C12: once constructed, a Pager's limit is at least 1, whatever sequence of
\* add_offset, add_limit, set_offset and set_limit calls follows Pager::new.
C12_LimitAtLeastOne == pager.last # <<>> => pager.limit >= 1

\* C13: right after Pager::new(offset, limit) the limit is the larger of the
\* requested limit and 1 and the offset is the requested offset, negative or
\* not: a requested limit of 0 or less gives exactly 1, and Pager::new(5, 10)
\* gives offset 5 and limit 10.
C13_NewClampsLimit ==
    pager.last # <<>> /\ pager.last[1] = "new" =>
      LET offset == pager.last[2]
          limit == pager.last[3]
      IN /\ pager.offset = offset
         /\ limit <= 0 => pager.limit = 1
         /\ limit >= 1 => pager.limit = limit
         /\ offset = 5 /\ limit = 10 => pager.offset = 5 /\ pager.limit = 10

\* Pager::new was given a negative offset and a negative limit.
C13_Witness ==
    /\ pager.last = <<"new", -2, -3>>
    /\ pager.limit = 1
    /\ pager.offset = -2

\* ----------------------------------------------- properties, SpecTicker

IsLetter(b) == b \in 65..90 \/ b \in 97..122
\* A byte string Ticker::new must accept: 3 to 5 ASCII letters
ValidInput(v) == Len(v) \in 3..5 /\ \A i \in 1..Len(v) : IsLetter(v[i])
\* s is v with every lower-case letter replaced by its upper-case letter
UppercaseOf(s, v) ==
    /\ Len(s) = Len(v)
    /\ \A i \in 1..Len(v) :
         /\ s[i] \in 65..90
         /\ v[i] \in 97..122 => s[i] = v[i] - 32
         /\ v[i] \in 65..90 => s[i] = v[i]

\* C14: for a byte string of 3, 4 or 5 ASCII letters Ticker::new succeeds, and
\* as_str of the Ticker has the length of the input, holds only 'A'..'Z' and
\* is the input with every letter uppercased.
C14_ValidInputAccepted ==
    tick.pc = "done" /\ ValidInput(tick.a) =>
      /\ IsOk(tick.ra)
      /\ UppercaseOf(as_str(tick.ra[2]), tick.a)

\* Ticker::new was given "aZzA", of both cases.
C14_Witness == tick.pc = "done" /\ tick.a = <<97, 90, 122, 65>> /\ IsOk(tick.ra)

\* C15: for a byte string shorter than 3 or longer than 5, or holding a byte
\* that is no ASCII letter, Ticker::new returns an error, and so no Ticker.
C15_InvalidInputRejected ==
    tick.pc = "done" /\ ~ValidInput(tick.a) =>
      tick.ra \in {Err(InvalidLen), Err(InvalidChars)}

\* Ticker::new was given "A0z", of a valid length with a digit.
C15_Witness == tick.pc = "done" /\ tick.a = <<65, 48, 122>> /\ IsErr(tick.ra)

\* C16 as stated: Ticker::new fails with InvalidLen whenever the input is not
\* 3 to 5 long, and with InvalidChars whenever an element is no ASCII letter.
C16_ErrorPerFlaw ==
    tick.pc = "done" =>
      /\ ~(Len(tick.a) \in 3..5) => tick.ra = Err(InvalidLen)
      /\ (\E i \in 1..Len(tick.a) : ~IsLetter(tick.a[i])) => tick.ra = Err(InvalidChars)

\* C16, amended: Ticker::new fails with InvalidLen whenever the input is not
\* 3 to 5 long, whatever its elements are, and with InvalidChars whenever the
\* input is 3 to 5 long and an element is no ASCII letter.
C16_LengthCheckedFirst ==
    tick.pc = "done" =>
      /\ ~(Len(tick.a) \in 3..5) => tick.ra = Err(InvalidLen)
      /\ Len(tick.a) \in 3..5 /\ (\E i \in 1..Len(tick.a) : ~IsLetter(tick.a[i]))
           => tick.ra = Err(InvalidChars)

\* Ticker::new was given "0{", too short and without a letter.
C16_Witness == tick.pc = "done" /\ tick.a = <<48, 123>> /\ tick.ra = Err(InvalidLen)

\* v and w consist of the same letters and differ at most in case
SameLetters(v, w) ==
    /\ Len(v) = Len(w)
    /\ \A i \in 1..Len(v) :
         v[i] = w[i] \/ v[i] = w[i] + 32 \/ w[i] = v[i] + 32

\* C17: two Tickers made of valid inputs of the same letters, differing only
\* in case, are equal and write the same data to a hasher; and two Tickers are
\* equal exactly when their upper-case strings are equal, so that a Ticker of
\* 3 letters is never equal to a longer one that starts with them.
C17_EqualityOnCanonical ==
    tick.pc = "done" /\ ValidInput(tick.a) /\ ValidInput(tick.b) =>
      LET t == tick.ra[2]
          u == tick.rb[2]
      IN /\ SameLetters(tick.a, tick.b) =>
              TickerEq(t, u) /\ TickerHash(t) = TickerHash(u)
         /\ TickerEq(t, u) <=> SameLetters(tick.a, tick.b)
         /\ Len(tick.a) # Len(tick.b) => ~TickerEq(t, u)

\* "aaB" and "AAB" were made into Tickers, which are equal.
C17_Witness ==
    /\ tick.pc = "done"
    /\ tick.a = <<97, 97, 66>>
    /\ tick.b = <<65, 65, 66>>
    /\ TickerEq(tick.ra[2], tick.rb[2])

\* ------------------------------------------------ properties, SpecReply

\* Whether the command failed with a DatabaseError of the Service
IsDatabaseError(error) ==
    error # PoiseError /\ error[2][1] = "DatabaseError"

\* C18: when two runs of a command fail with a DatabaseError, in the same
\* way but for different repository errors underneath, the user is sent the
\* same text in both: the text does not depend on the wrapped repository error.
C18_ReplyHidesCause ==
    /\ reply.pc = "replied"
    /\ reply.err1[1] = reply.err2[1]
    /\ IsDatabaseError(reply.err1)
    /\ IsDatabaseError(reply.err2)
    => reply.text1 = reply.text2

\* Two lookups failed, one for an unspecified storage error and one for a
\* missing account row, and both were answered.
C18_Witness ==
    /\ reply.pc = "replied"
    /\ reply.err1 = ServiceError(DatabaseError(Unspecified))
    /\ reply.err2 = ServiceError(DatabaseError(AccountNotFound(1)))
    /\ reply.text1 = reply.text2

\* C19: the remaining count that get_holdings computes, the total minus
\* max(0, offset + page length), is never negative, so that its conversion to
\* an unsigned count never aborts the call: for every set of holdings and every
\* pager of offset >= 0 and limit >= 1, also when the offset exceeds the number
\* of holdings or the account holds nothing. Stated for the calls during which
\* the holdings do not change.
C19_RemainingNeverNegative ==
    (/\ hold.pc = "done"
     /\ hold.offset >= 0 /\ hold.limit >= 1
     /\ ~hold.dirty)
        => hold.out # Panic

\* C20: the remaining count a get_holdings call returns differs from the number
\* of the account's entries that follow the returned page only if the
\* account's holdings were changed between the page query and the count query
\* of that call; and such a change can make it larger and can make it smaller.
C20_MiscountOnlyByRace ==
    [][ (/\ hold.pc = "paged" /\ hold'.pc = "done"
         /\ IsOk(hold'.out)
         /\ hold'.out[2][2] # Beyond(holdings, hold.id, hold.rows, hold.offset))
            => hold.mid ]_vars

\* One call returned a remaining count larger than the entries beyond its page
\* and one call a smaller one, the last of them after a change between its two
\* queries.
C20_Witness ==
    /\ hold.pc = "done"
    /\ IsOk(hold.out)
    /\ hold.mid
    /\ hold.seen = {"larger", "smaller"}

\* -------------------------------------------------- properties, SpecNav

\* A step in which button b is pressed and the loop moves current_page
PressStep(b) ==
    nav.pc = "waiting" /\ nav'.button = b /\ nav'.current_page # nav.current_page

\* C21: whenever a holding of the user was inserted or removed between the
\* first fetch of a portfolio session and the fetch that a button press
\* triggers, the press ends the session with the 'holdings have changed'
\* notice and the newly fetched page is not shown. Stated for presses of the
\* next button whose fetch meets no storage fault.
C21_ChangeEndsWithNotice ==
    [][ (PressStep("next") /\ nav.changed /\ ~nav'.fault)
           => (nav'.pc = "noticed" /\ nav'.shown = nav.shown) ]_vars

\* C22: after every press of prev or next, current_page lies in
\* 0..total_pages and the offset written to the Pager is not negative; prev
\* on page 0 leads to page total_pages and next on page total_pages to page 0.
C22_PageStaysInRange ==
    [][ (PressStep("prev") \/ PressStep("next"))
           => /\ nav'.current_page \in 0..nav.total_pages
              /\ nav'.offset >= 0
              /\ PressStep("prev") /\ nav.current_page = 0
                    => nav'.current_page = nav.total_pages
              /\ PressStep("next") /\ nav.current_page = nav.total_pages
                    => nav'.current_page = 0 ]_vars

\* C23: as long as no holding of the user is inserted or removed during a
\* portfolio session, a press does not end the session with the 'holdings
\* have changed' notice: the session goes on with the requested page. Stated
\* for presses of the next button whose fetch meets no storage fault.
C23_NoNoticeWithoutChange ==
    [][ (PressStep("next") /\ ~nav.changed /\ ~nav'.fault)
           => nav'.pc = "waiting" ]_vars

\* C24: the first reply of the portfolio command follows the number n of the
\* user's holdings: the 'has not purchased any stocks yet' notice for n = 0,
\* one page without buttons listing all n holdings for 1 <= n <= PAGE_SIZE,
\* and a page with the prev and next buttons for n > PAGE_SIZE.
C24_ReplyFormByCount ==
    (nav.form # "" /\ ~nav.changed) =>
      LET n == CountHoldings(holdings, nav.user_id)
      IN /\ n = 0 => nav.form = "none"
         /\ n >= 1 /\ n <= PAGE_SIZE => nav.form = "single" /\ Len(nav.shown) = n
         /\ n > PAGE_SIZE => nav.form = "buttons"

\* ------------------------------------------------- properties, SpecWalk

\* What a finished walk has read: every holding of the account once, in
\* ascending ticker order
ReadAll ==
    LET mine == {r \in holdings : r.user_id = walk.id}
    IN /\ Len(walk.pages) = Cardinality(mine)
       /\ \A r \in mine :
            \E i \in 1..Len(walk.pages) :
               as_str(walk.pages[i][1]) = r.ticker /\ walk.pages[i][2] = r.shares
       /\ \A i, j \in 1..Len(walk.pages) :
            i < j => StrLess(as_str(walk.pages[i][1]), as_str(walk.pages[j][1]))

====
